---- MODULE Spec2Model ----
(***************************************************************************)
(* Model of the Super-Cart application: the top-products ranking           *)
(* (backend ProductController.getTopProducts, frontend                     *)
(* ProductContext.getTopProducts), the in-memory cart of CartProvider with *)
(* getSupermarketTotals, and the saved-cart routes of the backend.         *)
(***************************************************************************)
EXTENDS Integers, Sequences, FiniteSets, TLC

VARIABLES
  products,    \* backend: the Product collection, in natural (insertion) order
  feProducts,  \* frontend: ProductProvider's `products` state
  req,         \* the last top-products request
  res,         \* the sequence that request returned
  cart,        \* frontend: CartProvider's `cart` state
  totals,      \* what getSupermarketTotals returned last
  carts,       \* backend: the Cart collection, in creation order
  saved,       \* frontend: SavedCartsPage's `saved` state
  quantity,    \* frontend: ProductCard's `quantity` state
  users,       \* backend: the User collection, in creation order
  tokens,      \* the tokens /api/auth/register and /api/auth/login have issued
  reply,       \* the response of the last request the backend answered
  pending,     \* backend: the handlers waiting between their read and their save
  session      \* frontend: localStorage, UserProvider's `currentUser`, the page shown

rankVars == <<products, feProducts, req, res>>
cartVars == <<cart, totals, carts, saved, quantity>>
apiVars == <<users, tokens, reply, pending>>
vars == <<products, feProducts, req, res, cart, totals, carts, saved, quantity,
          users, tokens, reply, pending, session>>

(***************************************************************************)
(* Bounds                                                                  *)
(***************************************************************************)
MaxProducts == 3
MaxItems == 2      \* line items of a cart whose totals are computed
MaxQty == 2        \* quantity of a line item
MaxLines == 2      \* lines of the cart that is shopped with

(***************************************************************************)
(* JavaScript numbers as far as the comparators need them: finite          *)
(* integers, +Infinity, -Infinity and NaN.                                 *)
(***************************************************************************)
Fin(n) == [k |-> "fin", v |-> n]
PosInf == [k |-> "inf", v |-> 1]
NegInf == [k |-> "inf", v |-> -1]
NaN == [k |-> "nan", v |-> 0]

\* a - b
JSSub(a, b) ==
  IF a.k = "nan" \/ b.k = "nan" THEN NaN
  ELSE IF a.k = "fin" /\ b.k = "fin" THEN Fin(a.v - b.v)
  ELSE IF a.k = "inf" /\ b.k = "inf"
       THEN (IF a.v = b.v THEN NaN ELSE a)
  ELSE IF a.k = "inf" THEN a
  ELSE [k |-> "inf", v |-> -b.v]

SetMin(S) == CHOOSE x \in S : \A y \in S : x <= y
SetMax(S) == CHOOSE x \in S : \A y \in S : x >= y

\* a.prices.toObject() on a Product document: prices is a Mongoose map, and
\* its toObject() called without the flattenMaps option gives a native Map
ToObject(prices) == [kind |-> "Map", entries |-> prices]

\* the prices of a product of the frontend's list, which came as JSON: a
\* plain object
JsonPrices(prices) == [kind |-> "Object", entries |-> prices]

\* Object.values(o): the own enumerable property values; a native Map has
\* none, whatever its entries
ObjectValues(o) ==
  IF o.kind = "Object" THEN {o.entries[m] : m \in DOMAIN o.entries} ELSE {}

\* Math.min(...values): Infinity for no arguments
MathMin(values) == IF values = {} THEN PosInf ELSE Fin(SetMin(values))

\* Math.max(...values): -Infinity for no arguments
MathMax(values) == IF values = {} THEN NegInf ELSE Fin(SetMax(values))

(***************************************************************************)
(* Products                                                                *)
(***************************************************************************)
EmptyPrices == [m \in {} |-> 0]

Catalogue ==
  { [_id |-> "p1", id |-> 1, name |-> "bread", prices |-> [m \in {"x", "y"} |-> IF m = "x" THEN 10 ELSE 12],
     popularity |-> 1, rating |-> 1],
    [_id |-> "p2", id |-> 2, name |-> "apple", prices |-> [m \in {"x", "y"} |-> 5],
     popularity |-> 1, rating |-> 0],
    [_id |-> "p3", id |-> 3, name |-> "milk", prices |-> EmptyPrices,
     popularity |-> 0, rating |-> 1],
    [_id |-> "p4", id |-> 4, name |-> "cocoa", prices |-> [m \in {"x", "y"} |-> IF m = "x" THEN 5 ELSE 7],
     popularity |-> 0, rating |-> 0],
    [_id |-> "p5", id |-> 5, name |-> "dates", prices |-> [m \in {"y"} |-> 10],
     popularity |-> 2, rating |-> 2] }

\* the lexicographic order of the names in use
NameOrder == <<"apple", "bread", "cocoa", "dates", "milk">>
NameIndex(n) == CHOOSE i \in 1..Len(NameOrder) : NameOrder[i] = n
NameLeq(a, b) == NameIndex(a) <= NameIndex(b)

Range(s) == {s[i] : i \in 1..Len(s)}
IsInjective(s) == \A i, j \in 1..Len(s) : s[i] = s[j] => i = j
Orderings(s) ==
  {r \in [1..Len(s) -> Range(s)] : Range(r) = Range(s) /\ IsInjective(r)}

\* every collection of at most MaxProducts distinct products, in any order
Collections ==
  UNION {{s \in [1..n -> Catalogue] : IsInjective(s)} : n \in 0..MaxProducts}

(***************************************************************************)
(* Array.prototype.sort with a comparator, and slice                       *)
(***************************************************************************)
\* the object whose values a comparator reads: a.prices.toObject() in the
\* controller, a.prices in the context
PricesRead(side, a) ==
  IF side = "backend" THEN ToObject(a.prices) ELSE JsonPrices(a.prices)

\* the value of the comparison function of criterion crit on (a, b)
CompareFn(side, crit, a, b) ==
  LET pricesA == ObjectValues(PricesRead(side, a))
      pricesB == ObjectValues(PricesRead(side, b))
  IN IF crit = "cheapest"
     THEN JSSub(MathMin(pricesA), MathMin(pricesB))
     ELSE LET diffA == JSSub(MathMax(pricesA), MathMin(pricesA))
              diffB == JSSub(MathMax(pricesB), MathMin(pricesB))
          IN JSSub(diffB, diffA)

\* how sort reads a comparator's value: NaN counts as +0
CmpSign(v) ==
  IF v.k = "nan" THEN 0
  ELSE IF v.k = "inf" THEN v.v
  ELSE IF v.v < 0 THEN -1 ELSE IF v.v > 0 THEN 1 ELSE 0

\* x put into the sorted t behind every element that does not sort after it
InsertSorted(side, crit, t, x) ==
  LET k == Cardinality({i \in 1..Len(t) : CmpSign(CompareFn(side, crit, t[i], x)) <= 0})
  IN SubSeq(t, 1, k) \o <<x>> \o SubSeq(t, k + 1, Len(t))

RECURSIVE JSSort(_, _, _)
\* s.sort(compare): stable
JSSort(side, crit, s) ==
  IF s = <<>> THEN <<>>
  ELSE InsertSorted(side, crit, JSSort(side, crit, SubSeq(s, 1, Len(s) - 1)), s[Len(s)])

\* Slice taking one element more: slice(0, end + 1)
SliceOneMore(s, end) ==
  LET e == IF end + 1 < 0 THEN (IF Len(s) + end + 1 < 0 THEN 0 ELSE Len(s) + end + 1)
           ELSE IF end + 1 > Len(s) THEN Len(s) ELSE end + 1
  IN SubSeq(s, 1, e)

\* s.slice(0, end): a negative end counts from the end of s
Slice(s, end) ==
  LET e == IF end < 0 THEN (IF Len(s) + end < 0 THEN 0 ELSE Len(s) + end)
           ELSE IF end > Len(s) THEN Len(s) ELSE end
  IN SubSeq(s, 1, e)

(***************************************************************************)
(* The document store's sort and limit                                     *)
(***************************************************************************)
\* a sorts no later than b under sort option {field: dir}
SortKeyLeq(field, dir, a, b) ==
  IF field = "name" THEN NameLeq(a.name, b.name)
  ELSE IF field = "popularity"
       THEN (IF dir = 1 THEN a.popularity <= b.popularity ELSE a.popularity >= b.popularity)
  ELSE (IF dir = 1 THEN a.rating <= b.rating ELSE a.rating >= b.rating)

\* Product.find().sort({field: dir}): the documents ordered by the key; the
\* store gives no order among documents of equal key
FindSorted(store, field, dir) ==
  {r \in Orderings(store) :
     \A i, j \in 1..Len(r) : i < j => SortKeyLeq(field, dir, r[i], r[j])}

\* .limit(n) of a query: a negative n counts as -n, 0 as no limit
QueryLimit(r, n) ==
  LET m == IF n < 0 THEN -n ELSE n
  IN IF m = 0 \/ m > Len(r) THEN r ELSE SubSeq(r, 1, m)

(***************************************************************************)
(* Query strings                                                           *)
(***************************************************************************)
\* a query parameter the request does not carry
Undefined == "<undefined>"

\* the integers a limit is asked with
LimitRange == (0 - 1)..(MaxProducts + 1)

CriteriaInputs ==
  {Undefined, "", "cheapest", "highest different", "most selected", "highest rated",
   "highest_different", "most_selected", "highest_rated", "not_a_real_criterion"}

LimitInputs == {Undefined, "abc"} \cup {ToString(n) : n \in LimitRange}

\* parseInt(s): the integer a decimal string denotes, NaN for anything else
ParseInt(s) ==
  IF \E n \in LimitRange : ToString(n) = s
  THEN Fin(CHOOSE n \in LimitRange : ToString(n) = s)
  ELSE NaN

\* x || fallback for a string x
StrOr(x, fallback) == IF x = Undefined \/ x = "" THEN fallback ELSE x

\* n || fallback for a number n
NumOr(n, fallback) == IF n.k = "nan" \/ (n.k = "fin" /\ n.v = 0) THEN fallback ELSE n.v

DefaultLimit == 10

(***************************************************************************)
(* backend: exports.getTopProducts                                         *)
(***************************************************************************)
ReqCriteria(query) == StrOr(query.criteria, "cheapest")

ReqLimit(query) == NumOr(ParseInt(query.limit), DefaultLimit)

\* GetTopProducts with the case labels spelled with underscores
GetTopProductsUnderscore(store, query) ==
  LET criteria == StrOr(query.criteria, "cheapest")
      limit == NumOr(ParseInt(query.limit), DefaultLimit)
  IN CASE criteria = "cheapest" -> {Slice(JSSort("backend", "cheapest", store), limit)}
       [] criteria = "highest_different" -> {Slice(JSSort("backend", "highest different", store), limit)}
       [] criteria = "most_selected" ->
            {QueryLimit(r, limit) : r \in FindSorted(store, "popularity", -1)}
       [] criteria = "highest_rated" ->
            {QueryLimit(r, limit) : r \in FindSorted(store, "rating", -1)}
       [] OTHER -> {QueryLimit(r, limit) : r \in FindSorted(store, "name", 1)}

\* the responses GET /api/products/top can give for the query on the store
GetTopProducts(store, query) ==
  LET criteria == ReqCriteria(query)
      limit == ReqLimit(query)
  IN CASE criteria = "cheapest" -> {Slice(JSSort("backend", "cheapest", store), limit)}
       [] criteria = "highest different" -> {Slice(JSSort("backend", "highest different", store), limit)}
       [] criteria = "most selected" ->
            {QueryLimit(r, limit) : r \in FindSorted(store, "popularity", -1)}
       [] criteria = "highest rated" ->
            {QueryLimit(r, limit) : r \in FindSorted(store, "rating", -1)}
       [] OTHER -> {QueryLimit(r, limit) : r \in FindSorted(store, "name", 1)}

(***************************************************************************)
(* frontend: ProductContext.getTopProducts and productAPI.getTopProducts   *)
(***************************************************************************)
\* productAPI.getTopProducts: the query string built from the arguments
FetchTopProducts(store, sortBy, amount) ==
  GetTopProducts(store, [criteria |-> sortBy, limit |-> ToString(amount)])

\* the values ProductContext.getTopProducts(sortBy, amount) can return
ContextGetTopProducts(cached, store, sortBy, amount) ==
  IF Len(cached) > 0 /\ (sortBy = "cheapest" \/ sortBy = "highest different")
  THEN {Slice(JSSort("frontend", sortBy, cached), amount)}
  ELSE FetchTopProducts(store, sortBy, amount)

SortByInputs == CriteriaInputs \ {Undefined}

NoReq == [side |-> "none", criteria |-> Undefined, amount |-> 0, sent |-> Undefined,
          state |-> "done"]

(***************************************************************************)
(* The ranking specification: a collection, the frontend's cached list and *)
(* one top-products request are drawn, and the handler answers it.         *)
(***************************************************************************)
\* the requests a client can send to GET /api/products/top
BackendRequests ==
  {[side |-> "backend", criteria |-> c, amount |-> 0, sent |-> l, state |-> "pending"] :
     c \in CriteriaInputs, l \in LimitInputs}

\* the calls TopProductsPage can make to the context's getTopProducts
FrontendRequests ==
  {[side |-> "frontend", criteria |-> s, amount |-> a, sent |-> ToString(a),
    state |-> "pending"] : s \in SortByInputs, a \in LimitRange}

\* GET /api/products/top?criteria=c&limit=l answered by exports.getTopProducts
TopRequest ==
  /\ req.side = "backend" /\ req.state = "pending"
  /\ res' \in GetTopProducts(products, [criteria |-> req.criteria, limit |-> req.sent])
  /\ req' = [req EXCEPT !.state = "done"]
  /\ UNCHANGED <<products, feProducts>>
  /\ UNCHANGED cartVars
  /\ UNCHANGED apiVars
  /\ UNCHANGED session

\* the context's `products` after getTopProducts sorted it where it is:
\* products.sort(...) in place of [...products].sort(...)
ProductsAfterTopInPlace(cached, sortBy) ==
  IF Len(cached) > 0 /\ (sortBy = "cheapest" \/ sortBy = "highest different")
  THEN JSSort("frontend", sortBy, cached)
  ELSE cached

\* the context's `products` after getTopProducts(sortBy, amount): the sort
\* works on the copy [...products], and setProducts is not called
ProductsAfterTop(cached, sortBy) == cached

\* TopProductsPage's effect: getTopProducts(sortBy, amount) of the context
TopPage ==
  /\ req.side = "frontend" /\ req.state = "pending"
  /\ res' \in ContextGetTopProducts(feProducts, products, req.criteria, req.amount)
  /\ req' = [req EXCEPT !.state = "done"]
  /\ feProducts' = ProductsAfterTop(feProducts, req.criteria)
  /\ UNCHANGED products
  /\ UNCHANGED cartVars
  /\ UNCHANGED apiVars
  /\ UNCHANGED session

(***************************************************************************)
(* backend: tokens, authMiddleware and adminMiddleware                     *)
(***************************************************************************)
\* a request without the x-auth-token header
NoToken == [kind |-> "none", userId |-> "", isAdmin |-> "absent"]

\* a token jwt.verify rejects: not signed with the secret, or expired
BadToken == [kind |-> "bad", userId |-> "", isAdmin |-> "absent"]

\* jwt.sign({ userId: user._id }, ...): the token of /api/auth/register
RegisterToken(user) == [kind |-> "jwt", userId |-> user._id, isAdmin |-> "absent"]

\* jwt.sign({ userId: user._id, isAdmin: user.isAdmin }, ...): the token of
\* /api/auth/login
LoginToken(user) ==
  [kind |-> "jwt", userId |-> user._id,
   isAdmin |-> IF user.isAdmin THEN "true" ELSE "false"]

\* authMiddleware with the token check left out
AuthMiddlewareOpen(token) == token.kind # "bad"

\* authMiddleware: next() is called when the header is there and jwt.verify
\* accepts it; 401 otherwise
AuthMiddleware(token) == token.kind = "jwt"

\* adminMiddleware with the test on req.user.isAdmin left out
AdminMiddlewareOpen(token) == token.kind = "jwt"

\* adminMiddleware: next() is called when req.user.isAdmin is truthy; 403
\* otherwise
AdminMiddleware(token) == token.isAdmin = "true"

\* the response of a route to a request sent with the token: status and the
\* documents of its JSON body
Reply(route, token, status, body) ==
  [route |-> route, token |-> token, status |-> status, body |-> body]

\* no call of getSupermarketTotals yet; once called, `value` is what the last
\* call returned, and from the second call on `before` is what the call
\* before it returned
NoTotals ==
  [called |-> FALSE, value |-> EmptyPrices, again |-> FALSE, before |-> EmptyPrices]

\* no request answered yet
NoReply == Reply("none", NoToken, 0, <<>>)

\* the browser before anyone logged in: localStorage empty, currentUser
\* null, the home page shown
Null == "null"
NoSession == [storage |-> [k \in {} |-> ""], currentUser |-> Null, page |-> "/"]

\* the backend before any account exists and any request is made
ApiIdle == users = <<>> /\ tokens = {} /\ reply = NoReply /\ pending = {}

RankInit ==
  /\ products \in Collections
  /\ feProducts \in {<<>>} \cup FindSorted(products, "name", 1)
  /\ req \in BackendRequests \cup FrontendRequests
  /\ res = <<>>
  /\ cart = <<>> /\ totals = NoTotals /\ carts = <<>> /\ saved = <<>> /\ quantity = 1
  /\ ApiIdle
  /\ session = NoSession

RankNext == TopRequest \/ TopPage

SpecRank == RankInit /\ [][RankNext]_vars

\* exports.getAllProducts: Product.find().sort("name")
GetAllProducts(store) == FindSorted(store, "name", 1)

\* the next top-products request, once the one before it is answered: a
\* client's GET, or the page's effect run again for a new sortBy or amount
NextTopRequest(r) ==
  /\ req.state = "done"
  /\ req' = r /\ res' = <<>>
  /\ UNCHANGED <<products, feProducts>>
  /\ UNCHANGED cartVars
  /\ UNCHANGED apiVars
  /\ UNCHANGED session

RerankNext ==
  \/ TopRequest
  \/ TopPage
  \/ \E r \in BackendRequests \cup FrontendRequests : NextTopRequest(r)

\* a full collection, the list fetchInitialData got from GET /api/products
\* or none yet, and no request made
RerankInit ==
  /\ products \in {s \in Collections :
                     /\ Len(s) = MaxProducts
                     /\ \A i, j \in 1..Len(s) : i < j => SortKeyLeq("name", 1, s[i], s[j])}
  /\ feProducts \in {<<>>, products}
  /\ req = NoReq /\ res = <<>>
  /\ cart = <<>> /\ totals = NoTotals /\ carts = <<>> /\ saved = <<>> /\ quantity = 1
  /\ ApiIdle
  /\ session = NoSession

\* ranking requests one after the other on one collection
SpecRerank == RerankInit /\ [][RerankNext]_vars

(***************************************************************************)
(* frontend: UserProvider, LoginPage and TopProductsPage's session check   *)
(***************************************************************************)
\* the emails people log in with
SessionUsers == {"a@x", "b@x"}

\* localStorage.getItem(key): null for a key that was never set
GetItem(storage, key) == IF key \in DOMAIN storage THEN storage[key] ELSE Null

\* localStorage.setItem(key, value)
SetItem(storage, key, value) ==
  [k \in DOMAIN storage \cup {key} |-> IF k = key THEN value ELSE storage[k]]

\* localStorage.removeItem(key)
RemoveItem(storage, key) == [k \in DOMAIN storage \ {key} |-> storage[k]]

SessionFrame ==
  /\ UNCHANGED <<products, feProducts>>
  /\ UNCHANGED cartVars
  /\ UNCHANGED apiVars

\* LoginPage.handleSubmit: loginUser answers with a token or throws; on a
\* token UserContext.login stores it under "token", sets currentUser, and
\* the page navigates to "/"
LoginSubmit(email, ok) ==
  /\ session.page = "/login"
  /\ session' = IF ok
                THEN [storage |-> SetItem(session.storage, "token", email),
                      currentUser |-> email, page |-> "/"]
                ELSE session
  /\ UNCHANGED <<req, res>>
  /\ SessionFrame

\* UserContext.logout
Logout ==
  /\ session' = [session EXCEPT !.storage = RemoveItem(session.storage, "token"),
                                !.currentUser = Null]
  /\ UNCHANGED <<req, res>>
  /\ SessionFrame

\* the app loaded anew, UserProvider's checkLoggedIn: currentUser starts
\* null and is set from the profile the stored token gets; a token the
\* backend refuses is removed
Reload(profileOk) ==
  /\ LET token == GetItem(session.storage, "token")
     IN session' =
          IF token = Null THEN [session EXCEPT !.currentUser = Null, !.page = "/"]
          ELSE IF profileOk THEN [session EXCEPT !.currentUser = token, !.page = "/"]
          ELSE [storage |-> RemoveItem(session.storage, "token"),
                currentUser |-> Null, page |-> "/"]
  /\ UNCHANGED <<req, res>>
  /\ SessionFrame

\* TopProductsPage mounted with sortBy and amount of request r: the first
\* effect navigates to /login when localStorage has no "currentUser", the
\* second starts getTopProducts when the context's currentUser is set
OpenTopProducts(r) ==
  /\ req.state = "done"
  /\ session' = [session EXCEPT !.page = IF GetItem(session.storage, "currentUser") = Null
                                         THEN "/login" ELSE "TopProductsPage"]
  /\ IF session.currentUser # Null
     THEN req' = r /\ res' = <<>>
     ELSE UNCHANGED <<req, res>>
  /\ SessionFrame

\* the link to the login page followed
OpenLogin ==
  /\ session' = [session EXCEPT !.page = "/login"]
  /\ UNCHANGED <<req, res>>
  /\ SessionFrame

SessionInit ==
  /\ products \in {s \in Collections :
                     /\ Len(s) = MaxProducts
                     /\ \A i, j \in 1..Len(s) : i < j => SortKeyLeq("name", 1, s[i], s[j])}
  /\ feProducts = products
  /\ req = NoReq /\ res = <<>>
  /\ cart = <<>> /\ totals = NoTotals /\ carts = <<>> /\ saved = <<>> /\ quantity = 1
  /\ ApiIdle
  /\ session = NoSession

SessionNext ==
  \/ \E e \in SessionUsers, ok \in BOOLEAN : LoginSubmit(e, ok)
  \/ Logout
  \/ \E profileOk \in BOOLEAN : Reload(profileOk)
  \/ OpenLogin
  \/ \E r \in FrontendRequests : OpenTopProducts(r)
  \/ TopPage

SpecSession == SessionInit /\ [][SessionNext]_vars

(***************************************************************************)
(* CartProvider.getSupermarketTotals                                       *)
(***************************************************************************)
\* ids as JavaScript values: the Product schema's id is a Number, the Cart
\* schema's item id a String
NumId(n) == [t |-> "number", v |-> n]
StrId(n) == [t |-> "string", v |-> n]

\* AddItem with = in place of +=
AddItemOverwrite(acc, item) ==
  [m \in DOMAIN acc \cup DOMAIN item.prices |->
     IF m \in DOMAIN item.prices
     THEN item.prices[m] * item.quantity
     ELSE acc[m]]

\* the body of the inner forEach, for every market of the item:
\*   if (!totals[market]) totals[market] = 0;
\*   totals[market] += price * item.quantity;
AddItem(acc, item) ==
  [m \in DOMAIN acc \cup DOMAIN item.prices |->
     IF m \in DOMAIN item.prices
     THEN (IF m \in DOMAIN acc /\ acc[m] # 0 THEN acc[m] ELSE 0)
          + item.prices[m] * item.quantity
     ELSE acc[m]]

RECURSIVE TotalsOf(_)
\* cart.forEach(...) from the empty totals
TotalsOf(items) ==
  IF items = <<>> THEN EmptyPrices
  ELSE AddItem(TotalsOf(SubSeq(items, 1, Len(items) - 1)), items[Len(items)])

\* getSupermarketTotals with `totals` kept between the calls
GetSupermarketTotalsKept ==
  /\ totals' = [called |-> TRUE,
                value |-> [m \in DOMAIN totals.value \cup DOMAIN TotalsOf(cart) |->
                             (IF m \in DOMAIN totals.value THEN totals.value[m] ELSE 0)
                             + (IF m \in DOMAIN TotalsOf(cart) THEN TotalsOf(cart)[m] ELSE 0)],
                again |-> totals.called, before |-> totals.value]
  /\ UNCHANGED <<cart, carts, saved, quantity>>
  /\ UNCHANGED rankVars
  /\ UNCHANGED apiVars
  /\ UNCHANGED session

\* a call of getSupermarketTotals: `const totals = {}`, the two loops, and
\* the return
GetSupermarketTotals ==
  /\ totals' = [called |-> TRUE, value |-> TotalsOf(cart),
                again |-> totals.called, before |-> totals.value]
  /\ UNCHANGED <<cart, carts, saved, quantity>>
  /\ UNCHANGED rankVars
  /\ UNCHANGED apiVars
  /\ UNCHANGED session

\* the price maps and line items the totals are computed over
Markets == {"x", "y"}
PriceValues == {0, 5, 8, 10}
PriceMaps == UNION {[M -> PriceValues] : M \in SUBSET Markets}
LineItems(i) ==
  {[id |-> NumId(i), name |-> "item", quantity |-> q, prices |-> pm] :
     q \in 1..MaxQty, pm \in PriceMaps}
AnyCarts ==
  UNION {{s \in [1..n -> UNION {LineItems(i) : i \in 1..n}] :
            \A i \in 1..n : s[i].id = NumId(i)} : n \in 0..MaxItems}

TotalsInit ==
  /\ cart \in AnyCarts
  /\ totals = NoTotals
  /\ products = <<>> /\ feProducts = <<>> /\ req = NoReq /\ res = <<>>
  /\ carts = <<>> /\ saved = <<>> /\ quantity = 1
  /\ ApiIdle
  /\ session = NoSession

TotalsNext == GetSupermarketTotals

SpecTotals == TotalsInit /\ [][TotalsNext]_vars

(***************************************************************************)
(* backend: the Cart schema and the routes of CartRoutes.js                *)
(***************************************************************************)
\* the schema's cast of an item: id to String, fields outside the schema dropped
CastItem(item) ==
  [id |-> StrId(item.id.v), name |-> item.name, quantity |-> item.quantity,
   prices |-> item.prices]

CastItems(items) == [i \in 1..Len(items) |-> CastItem(items[i])]

\* the schema's validation, run by save(): quantity has min: 1
ItemValid(item) == item.quantity >= 1

CartValid(items) == \A i \in 1..Len(items) : ItemValid(items[i])

\* the ObjectIds the collection hands out
CartIds == {"c1"}
UsedIds(store) == {store[i]._id : i \in 1..Len(store)}

\* the label Date.now() gives a cart saved without a name
DefaultName == "cart-now"

\* the values Date.now() takes while carts are saved by the shopper
CartTimes == {1}

\* PostCart without the test of items.length
PostCartAnyLength(store, user, name, items, id, at) ==
  IF ~CartValid(items) THEN [status |-> 500, store |-> store]
  ELSE [status |-> 201,
        store |-> Append(store, [_id |-> id,
                                 name |-> IF name = "" THEN DefaultName ELSE name,
                                 items |-> CastItems(items),
                                 userId |-> user,
                                 createdAt |-> at,
                                 updatedAt |-> at])]

\* router.post("/"): [status, store] after the request of `user` with the body,
\* handled at time `at`
PostCart(store, user, name, items, id, at) ==
  IF Len(items) = 0 THEN [status |-> 400, store |-> store]
  ELSE IF ~CartValid(items) THEN [status |-> 500, store |-> store]
  ELSE [status |-> 201,
        store |-> Append(store, [_id |-> id,
                                 name |-> IF name = "" THEN DefaultName ELSE name,
                                 items |-> CastItems(items),
                                 userId |-> user,
                                 createdAt |-> at,
                                 updatedAt |-> at])]

\* router.put("/:id")
PutCart(store, user, id, name, items, at) ==
  IF id \notin UsedIds(store) THEN [status |-> 404, store |-> store]
  ELSE LET k == CHOOSE i \in 1..Len(store) : store[i]._id = id
       IN IF store[k].userId # user THEN [status |-> 403, store |-> store]
          ELSE IF ~CartValid(items) THEN [status |-> 500, store |-> store]
          ELSE [status |-> 200,
                store |-> [store EXCEPT ![k].name = IF name = "" THEN @ ELSE name,
                                        ![k].items = CastItems(items),
                                        ![k].updatedAt = at]]

\* DeleteCart without the test of the cart's userId
DeleteCartAnyOwner(store, user, id) ==
  IF id \notin UsedIds(store) THEN [status |-> 404, store |-> store]
  ELSE LET k == CHOOSE i \in 1..Len(store) : store[i]._id = id
       IN [status |-> 200,
           store |-> SubSeq(store, 1, k - 1) \o SubSeq(store, k + 1, Len(store))]

\* router.delete("/:id")
DeleteCart(store, user, id) ==
  IF id \notin UsedIds(store) THEN [status |-> 404, store |-> store]
  ELSE LET k == CHOOSE i \in 1..Len(store) : store[i]._id = id
       IN IF store[k].userId # user THEN [status |-> 403, store |-> store]
          ELSE [status |-> 200,
                store |-> SubSeq(store, 1, k - 1) \o SubSeq(store, k + 1, Len(store))]

RECURSIVE NewestFirst(_, _)
\* router.get("/"): the user's carts, newest first
NewestFirst(store, user) ==
  IF store = <<>> THEN <<>>
  ELSE LET rest == NewestFirst(SubSeq(store, 1, Len(store) - 1), user)
           last == store[Len(store)]
       IN IF last.userId = user THEN <<last>> \o rest ELSE rest

(***************************************************************************)
(* frontend: CartProvider                                                  *)
(***************************************************************************)
\* FindIndex comparing with == in place of ===: "1" and 1 are the same id
FindIndexLoose(items, id) ==
  IF \E i \in 1..Len(items) : items[i].id.v = id.v
  THEN CHOOSE i \in 1..Len(items) :
         items[i].id.v = id.v /\ \A j \in 1..(i - 1) : items[j].id.v # id.v
  ELSE 0

\* cart.findIndex((item) => item.id === product.id): 0 when there is none
FindIndex(items, id) ==
  IF \E i \in 1..Len(items) : items[i].id = id
  THEN CHOOSE i \in 1..Len(items) :
         items[i].id = id /\ \A j \in 1..(i - 1) : items[j].id # id
  ELSE 0

\* {...product, quantity}: the fields of the product the cart reads
NewLine(product, qty) ==
  [id |-> NumId(product.id), name |-> product.name, quantity |-> qty,
   prices |-> product.prices]

\* addToCart(product, _, quantity)
AddToCartResult(items, product, qty) ==
  LET k == FindIndex(items, NumId(product.id))
  IN IF k > 0 THEN [items EXCEPT ![k].quantity = @ + qty]
     ELSE Append(items, NewLine(product, qty))

\* what a list of carts held elsewhere shows after addToCart(product, _,
\* quantity): `updatedCart[k].quantity += quantity` writes the item object
\* of the cart itself, and loadCart's [...items] put the held carts' item
\* objects into the cart, so a held item that equals the line written may
\* be that object and is taken to be it
HeldAfterAdd(held, items, product, qty) ==
  LET k == FindIndex(items, NumId(product.id))
      Written(its) ==
        [i \in 1..Len(its) |->
           IF its[i] = items[k] THEN [its[i] EXCEPT !.quantity = @ + qty] ELSE its[i]]
  IN IF k = 0 THEN held
     ELSE [c \in 1..Len(held) |-> [held[c] EXCEPT !.items = Written(@)]]

\* updateQuantity without its early return
UpdateQuantityNoGuard(items, id, newQuantity) ==
  [i \in 1..Len(items) |->
     IF items[i].id = id THEN [items[i] EXCEPT !.quantity = newQuantity]
     ELSE items[i]]

\* updateQuantity(productId, newQuantity)
UpdateQuantityResult(items, id, newQuantity) ==
  IF newQuantity < 1 THEN items
  ELSE [i \in 1..Len(items) |->
          IF items[i].id = id THEN [items[i] EXCEPT !.quantity = newQuantity]
          ELSE items[i]]

RECURSIVE Without(_, _)
\* cart.filter((item) => item.id !== productId)
Without(items, id) ==
  IF items = <<>> THEN <<>>
  ELSE LET rest == Without(SubSeq(items, 1, Len(items) - 1), id)
           last == items[Len(items)]
       IN IF last.id # id THEN Append(rest, last) ELSE rest

\* the logged-in user
User == "u1"

\* the products on the shelf of the cart specification
Shelf == <<[_id |-> "p1", id |-> 1, name |-> "bread",
            prices |-> [m \in {"x", "y"} |-> IF m = "x" THEN 10 ELSE 12],
            popularity |-> 1, rating |-> 1]>>

LineIds(items) == {items[i].id : i \in 1..Len(items)}

\* quantities stay within the model's bound
Within(items) ==
  /\ Len(items) <= MaxLines
  /\ \A i \in 1..Len(items) : items[i].quantity <= MaxQty

\* the largest quantity the selectors go to
QtyCeiling == 99

\* ProductCard.increaseQty: setQuantity((q) => Math.min(q + 1, 99))
IncreaseQty ==
  /\ quantity < MaxQty
  /\ quantity' = IF quantity + 1 < QtyCeiling THEN quantity + 1 ELSE QtyCeiling
  /\ UNCHANGED <<cart, totals, carts, saved>>
  /\ UNCHANGED rankVars
  /\ UNCHANGED apiVars
  /\ UNCHANGED session

\* ProductCard.decreaseQty: setQuantity((q) => Math.max(q - 1, 1))
DecreaseQty ==
  /\ quantity' = IF quantity - 1 > 1 THEN quantity - 1 ELSE 1
  /\ UNCHANGED <<cart, totals, carts, saved>>
  /\ UNCHANGED rankVars
  /\ UNCHANGED apiVars
  /\ UNCHANGED session

\* ProductCard's number input: onChange with the parsed value
TypeQty(val) ==
  /\ quantity' = IF val >= 1 /\ val <= QtyCeiling THEN val ELSE quantity
  /\ UNCHANGED <<cart, totals, carts, saved>>
  /\ UNCHANGED rankVars
  /\ UNCHANGED apiVars
  /\ UNCHANGED session

\* ProductCard.handleAddToCart: addToCart(product, null, quantity), setQuantity(1)
AddToCart(product) ==
  /\ Within(AddToCartResult(cart, product, quantity))
  /\ cart' = AddToCartResult(cart, product, quantity)
  /\ saved' = HeldAfterAdd(saved, cart, product, quantity)
  /\ quantity' = 1
  /\ UNCHANGED <<totals, carts>>
  /\ UNCHANGED rankVars
  /\ UNCHANGED apiVars
  /\ UNCHANGED session

\* the quantity ProductModal starts from: existingItem?.quantity || 1
ModalStart(product) ==
  LET k == FindIndex(cart, NumId(product.id))
  IN IF k > 0 /\ cart[k].quantity # 0 THEN cart[k].quantity ELSE 1

\* ProductModal.handleAddToCart with the quantity q its selector shows: the
\* start value, or a value its buttons and input have set, which are those of
\* ProductCard
ModalAddToCart(product, q) ==
  /\ q = ModalStart(product) \/ (q >= 1 /\ q <= QtyCeiling)
  /\ Within(AddToCartResult(cart, product, q))
  /\ cart' = AddToCartResult(cart, product, q)
  /\ saved' = HeldAfterAdd(saved, cart, product, q)
  /\ UNCHANGED <<totals, carts, quantity>>
  /\ UNCHANGED rankVars
  /\ UNCHANGED apiVars
  /\ UNCHANGED session

\* CartItem: the remove button
RemoveFromCart(id) ==
  /\ cart' = Without(cart, id)
  /\ UNCHANGED <<totals, carts, saved, quantity>>
  /\ UNCHANGED rankVars
  /\ UNCHANGED apiVars
  /\ UNCHANGED session

UpdateQuantity(id, newQuantity) ==
  /\ cart' = UpdateQuantityResult(cart, id, newQuantity)
  /\ UNCHANGED <<totals, carts, saved, quantity>>
  /\ UNCHANGED rankVars
  /\ UNCHANGED apiVars
  /\ UNCHANGED session

ClearCart ==
  /\ cart' = <<>>
  /\ UNCHANGED <<totals, carts, saved, quantity>>
  /\ UNCHANGED rankVars
  /\ UNCHANGED apiVars
  /\ UNCHANGED session

\* SavedCartsPage.loadSelectedCart: loadCart(selectedCart.items)
LoadCart(k) ==
  /\ cart' = saved[k].items
  /\ UNCHANGED <<totals, carts, saved, quantity>>
  /\ UNCHANGED rankVars
  /\ UNCHANGED apiVars
  /\ UNCHANGED session

\* loadSavedCart(cartId): GET /api/cart/:id, then setCart(savedCart.items)
LoadSavedCart(id) ==
  /\ \E k \in 1..Len(carts) :
       /\ carts[k]._id = id /\ carts[k].userId = User
       /\ cart' = carts[k].items
  /\ UNCHANGED <<totals, carts, saved, quantity>>
  /\ UNCHANGED rankVars
  /\ UNCHANGED apiVars
  /\ UNCHANGED session

\* saveCart(name): nothing for an empty cart, else POST /api/cart
SaveCart(name, id, at) ==
  /\ Len(cart) > 0
  /\ carts' = PostCart(carts, User, name, cart, id, at).store
  /\ UNCHANGED <<cart, totals, saved, quantity>>
  /\ UNCHANGED rankVars
  /\ UNCHANGED apiVars
  /\ UNCHANGED session

\* SavedCartsPage's effect: setSaved(await getSavedCarts())
FetchSaved ==
  /\ saved' = NewestFirst(carts, User)
  /\ UNCHANGED <<cart, totals, carts, quantity>>
  /\ UNCHANGED rankVars
  /\ UNCHANGED apiVars
  /\ UNCHANGED session

\* SavedCartsPage.removeCart: DELETE /api/cart/:id, then the list again
RemoveSaved(k) ==
  /\ carts' = DeleteCart(carts, User, saved[k]._id).store
  /\ saved' = IF DeleteCart(carts, User, saved[k]._id).status = 200
              THEN NewestFirst(carts', User) ELSE saved
  /\ UNCHANGED <<cart, totals, quantity>>
  /\ UNCHANGED rankVars
  /\ UNCHANGED apiVars
  /\ UNCHANGED session

\* the item lists a client can send to the routes directly
ApiItems ==
  {[id |-> NumId(1), name |-> "bread", quantity |-> q,
    prices |-> [m \in {"x"} |-> 10]] : q \in (0 - 1)..1}
ApiBodies == {<<>>} \cup {<<i>> : i \in ApiItems}

\* POST /api/cart sent by any client that holds the user's token
ApiPost(items, id, at) ==
  /\ carts' = PostCart(carts, User, "", items, id, at).store
  /\ UNCHANGED <<cart, totals, saved, quantity>>
  /\ UNCHANGED rankVars
  /\ UNCHANGED apiVars
  /\ UNCHANGED session

\* PUT /api/cart/:id sent by any client that holds the user's token
ApiPut(id, items, at) ==
  /\ carts' = PutCart(carts, User, id, "", items, at).store
  /\ UNCHANGED <<cart, totals, saved, quantity>>
  /\ UNCHANGED rankVars
  /\ UNCHANGED apiVars
  /\ UNCHANGED session

CartInit ==
  /\ products = Shelf /\ feProducts = Shelf
  /\ req = NoReq /\ res = <<>>
  /\ cart = <<>> /\ totals = NoTotals /\ carts = <<>> /\ saved = <<>> /\ quantity = 1
  /\ ApiIdle
  /\ session = NoSession

CartNext ==
  \/ IncreaseQty
  \/ DecreaseQty
  \/ \E val \in 0..MaxQty : TypeQty(val)
  \/ \E p \in Range(feProducts) : AddToCart(p)
  \/ \E p \in Range(feProducts), q \in 0..MaxQty : ModalAddToCart(p, q)
  \/ \E id \in LineIds(cart) : RemoveFromCart(id)
  \/ \E id \in LineIds(cart), q \in (0 - 1)..MaxQty : UpdateQuantity(id, q)
  \/ ClearCart
  \/ \E k \in 1..Len(saved) : LoadCart(k)
  \/ \E id \in CartIds : LoadSavedCart(id)
  \/ \E name \in {"", "weekly"}, id \in CartIds \ UsedIds(carts), at \in CartTimes :
       SaveCart(name, id, at)
  \/ FetchSaved
  \/ \E k \in 1..Len(saved) : RemoveSaved(k)
  \/ \E b \in ApiBodies, id \in CartIds \ UsedIds(carts), at \in CartTimes :
       ApiPost(b, id, at)
  \/ \E b \in ApiBodies, id \in CartIds, at \in CartTimes : ApiPut(id, b, at)

SpecCart == CartInit /\ [][CartNext]_vars

(***************************************************************************)
(* frontend: several cart functions called on one render of CartProvider   *)
(***************************************************************************)
\* the products listed: MaxProducts of them, with the ids 1..MaxProducts
BatchShelf ==
  CHOOSE s \in Collections : Len(s) = MaxProducts /\ \A i \in 1..Len(s) : s[i].id = i

\* the calls: addToCart(product, _, qty), removeFromCart(id),
\* updateQuantity(id, qty), for the product with id p
BatchOps ==
  {[kind |-> "add", p |-> i, qty |-> q] : i \in 1..MaxProducts, q \in 1..MaxQty}
    \cup {[kind |-> "remove", p |-> i, qty |-> 0] : i \in 1..MaxProducts}
    \cup {[kind |-> "update", p |-> i, qty |-> q] : i \in 1..MaxProducts, q \in 0..MaxQty}

\* whether the call reaches its setCart: updateQuantity returns early
SetsCart(op) == ~(op.kind = "update" /\ op.qty < 1)

\* the value the call hands to setCart when the `cart` of its render is c
SetValue(c, op) ==
  CASE op.kind = "add" -> AddToCartResult(c, BatchShelf[op.p], op.qty)
    [] op.kind = "remove" -> Without(c, NumId(op.p))
    [] OTHER -> UpdateQuantityResult(c, NumId(op.p), op.qty)

\* the `cart` of the render after the call: addToCart of a product in the
\* cart has written the quantity into the line's object, which c holds too;
\* every other call leaves c's array and objects alone
CapturedAfter(c, op) ==
  IF op.kind = "add" /\ FindIndex(c, NumId(op.p)) > 0
  THEN AddToCartResult(c, BatchShelf[op.p], op.qty)
  ELSE c

\* the state after two calls on one render: setCart was given values, not
\* updater functions, so the state is the value of the last setCart
InvokeTwoResult(c, op1, op2) ==
  IF SetsCart(op2) THEN SetValue(CapturedAfter(c, op1), op2)
  ELSE IF SetsCart(op1) THEN SetValue(c, op1)
  ELSE c

\* the carts of the batch specification: a line a product at most, quantities
\* within twice the bound
BatchWithin(items) ==
  /\ Len(items) <= MaxProducts
  /\ \A i \in 1..Len(items) : items[i].quantity <= 2 * MaxQty

\* two cart functions called before CartProvider renders again
InvokeTwo(op1, op2) ==
  /\ BatchWithin(InvokeTwoResult(cart, op1, op2))
  /\ cart' = InvokeTwoResult(cart, op1, op2)
  /\ UNCHANGED <<totals, carts, saved, quantity>>
  /\ UNCHANGED rankVars
  /\ UNCHANGED apiVars
  /\ UNCHANGED session

\* one cart function called, and the provider rendered
InvokeOne(op) ==
  /\ SetsCart(op)
  /\ BatchWithin(SetValue(cart, op))
  /\ cart' = SetValue(cart, op)
  /\ UNCHANGED <<totals, carts, saved, quantity>>
  /\ UNCHANGED rankVars
  /\ UNCHANGED apiVars
  /\ UNCHANGED session

BatchInit ==
  /\ products = BatchShelf /\ feProducts = BatchShelf
  /\ req = NoReq /\ res = <<>>
  /\ cart = <<>> /\ totals = NoTotals /\ carts = <<>> /\ saved = <<>> /\ quantity = 1
  /\ ApiIdle
  /\ session = NoSession

BatchNext ==
  \/ \E op \in BatchOps : InvokeOne(op)
  \/ \E op1, op2 \in BatchOps : InvokeTwo(op1, op2)

SpecBatch == BatchInit /\ [][BatchNext]_vars

(***************************************************************************)
(* backend: the admin routes of ProductRoutes and their handlers           *)
(***************************************************************************)
\* the fields a request body carries; a field it lacks is undefined
Has(body, f) == f \in DOMAIN body

\* the paths the Product schema requires
ProductRequired == {"id", "name", "category", "prices"}

\* the schema's validation, run by save()
ProductValid(doc) == ProductRequired \subseteq DOMAIN doc

ProductIds(store) == {store[i]._id : i \in 1..Len(store)}

\* exports.createProduct: [status, store, body]
CreateProduct(store, body, id) ==
  IF \/ ~Has(body, "name") \/ ~Has(body, "category") \/ ~Has(body, "prices")
     \/ body.name = "" \/ body.category = ""
  THEN [status |-> 400, store |-> store, body |-> <<>>]
  ELSE LET newProduct == [_id |-> id, name |-> body.name, category |-> body.category,
                          prices |-> body.prices, popularity |-> 0, rating |-> 0]
       IN IF ~ProductValid(newProduct)
          THEN [status |-> 500, store |-> store, body |-> <<>>]
          ELSE [status |-> 201, store |-> Append(store, newProduct),
                body |-> <<newProduct>>]

\* exports.updateProduct
UpdateProduct(store, id, body) ==
  IF id \notin ProductIds(store) THEN [status |-> 404, store |-> store, body |-> <<>>]
  ELSE LET k == CHOOSE i \in 1..Len(store) : store[i]._id = id
           product == store[k]
           updated ==
             [product EXCEPT
                !.name = IF Has(body, "name") /\ body.name # "" THEN body.name ELSE @,
                !.prices = IF Has(body, "prices") THEN body.prices ELSE @,
                !.popularity = IF Has(body, "popularity") THEN body.popularity ELSE @,
                !.rating = IF Has(body, "rating") THEN body.rating ELSE @]
       IN [status |-> 200, store |-> [store EXCEPT ![k] = updated], body |-> <<updated>>]

\* exports.deleteProduct
DeleteProduct(store, id) ==
  IF id \notin ProductIds(store) THEN [status |-> 404, store |-> store, body |-> <<>>]
  ELSE LET k == CHOOSE i \in 1..Len(store) : store[i]._id = id
       IN [status |-> 200,
           store |-> SubSeq(store, 1, k - 1) \o SubSeq(store, k + 1, Len(store)),
           body |-> <<>>]

\* a route behind authMiddleware and adminMiddleware: the handler's result,
\* or 401 or 403 with the collection as it was
AdminRoute(token, store, result) ==
  IF ~AuthMiddleware(token) THEN [status |-> 401, store |-> store, body |-> <<>>]
  ELSE IF ~AdminMiddleware(token) THEN [status |-> 403, store |-> store, body |-> <<>>]
  ELSE result

\* POST /api/products
ProductPost(token, body, id) ==
  LET r == AdminRoute(token, products, CreateProduct(products, body, id))
  IN /\ products' = r.store
     /\ reply' = Reply("POST /api/products", token, r.status, r.body)
     /\ UNCHANGED <<feProducts, req, res, users, tokens, pending, session>>
     /\ UNCHANGED cartVars

\* PUT /api/products/:id
ProductPut(token, id, body) ==
  LET r == AdminRoute(token, products, UpdateProduct(products, id, body))
  IN /\ products' = r.store
     /\ reply' = Reply("PUT /api/products/:id", token, r.status, r.body)
     /\ UNCHANGED <<feProducts, req, res, users, tokens, pending, session>>
     /\ UNCHANGED cartVars

\* DELETE /api/products/:id
ProductDelete(token, id) ==
  LET r == AdminRoute(token, products, DeleteProduct(products, id))
  IN /\ products' = r.store
     /\ reply' = Reply("DELETE /api/products/:id", token, r.status, r.body)
     /\ UNCHANGED <<feProducts, req, res, users, tokens, pending, session>>
     /\ UNCHANGED cartVars

(***************************************************************************)
(* The snapshot specification: a shopper fills, saves and loads the cart   *)
(* while the admin changes the products and the product list is fetched    *)
(* again.                                                                  *)
(***************************************************************************)
\* the accounts of the snapshot specification: an admin and the shopper
Admin == [_id |-> "u0", email |-> "admin@x", isAdmin |-> TRUE]
Shopper == [_id |-> User, email |-> "shopper@x", isAdmin |-> FALSE]

\* the tokens requests are sent with: none, the admin's, the shopper's
SentTokens == {NoToken, LoginToken(Admin), RegisterToken(Shopper)}

\* the bodies the admin updates a product's prices with
PriceChanges ==
  {[prices |-> [m \in {"x", "y"} |-> IF m = "x" THEN 11 ELSE 12]],
   [prices |-> [m \in {"x"} |-> 1]]}

\* refreshProducts with the cart's lines following the fetched products
RefreshProductsLive ==
  /\ feProducts' \in FindSorted(products, "name", 1)
  /\ cart' = [i \in 1..Len(cart) |->
                IF \E k \in 1..Len(products) : products[k].id = cart[i].id.v
                THEN [cart[i] EXCEPT !.prices =
                        (CHOOSE p \in Range(products) : p.id = cart[i].id.v).prices]
                ELSE cart[i]]
  /\ UNCHANGED <<products, req, res, totals, carts, saved, quantity>>
  /\ UNCHANGED apiVars
  /\ UNCHANGED session

\* refreshProducts: fetchInitialData again, setProducts(await getAllProducts())
RefreshProducts ==
  /\ feProducts' \in FindSorted(products, "name", 1)
  /\ UNCHANGED <<products, req, res>>
  /\ UNCHANGED cartVars
  /\ UNCHANGED apiVars
  /\ UNCHANGED session

SnapshotInit ==
  /\ products = Shelf /\ feProducts = Shelf
  /\ req = NoReq /\ res = <<>>
  /\ cart = <<>> /\ totals = NoTotals /\ carts = <<>> /\ saved = <<>> /\ quantity = 1
  /\ users = <<Admin, Shopper>> /\ tokens = SentTokens \ {NoToken}
  /\ reply = NoReply /\ pending = {}
  /\ session = NoSession

SnapshotNext ==
  \/ \E p \in Range(feProducts) : AddToCart(p)
  \/ \E name \in {"weekly"}, id \in CartIds \ UsedIds(carts), at \in CartTimes :
       SaveCart(name, id, at)
  \/ \E id \in CartIds : LoadSavedCart(id)
  \/ FetchSaved
  \/ \E k \in 1..Len(saved) : LoadCart(k)
  \/ GetSupermarketTotals
  \/ \E t \in SentTokens, id \in ProductIds(Shelf), b \in PriceChanges : ProductPut(t, id, b)
  \/ \E t \in SentTokens, id \in ProductIds(Shelf) : ProductDelete(t, id)
  \/ RefreshProducts

SpecSnapshot == SnapshotInit /\ [][SnapshotNext]_vars

(***************************************************************************)
(* The cart routes as any client can request them: every route behind      *)
(* authMiddleware; PUT /api/cart/:id in its two steps, findById and save.  *)
(***************************************************************************)
\* a second account
Other == [_id |-> "u2", email |-> "other@x", isAdmin |-> FALSE]

\* the tokens cart requests are sent with
CartTokens == {NoToken, BadToken, RegisterToken(Shopper), LoginToken(Other)}

\* the ObjectIds the Cart collection hands out to these requests
ApiCartIds == {"c1", "c2"}

\* the values Date.now() takes
ApiTimes == {1, 2}

\* the connections requests come in on, one request at a time each
Connections == {"k1", "k2"}

\* req.body.items: undefined, a value that is not an array, or an array
NoItems == [kind |-> "undefined", v |-> <<>>]
NotAnArray == [kind |-> "string", v |-> <<>>]
Arr(items) == [kind |-> "array", v |-> items]

\* !items || !Array.isArray(items)
NotItems(x) == x.kind # "array"

\* item lists of requests: one bread, milk and bread, a bread of quantity 0
OneItem ==
  <<[id |-> NumId(1), name |-> "bread", quantity |-> 1, prices |-> [m \in {"x"} |-> 10]]>>
TwoItems ==
  <<[id |-> NumId(3), name |-> "milk", quantity |-> 2, prices |-> [m \in {"y"} |-> 5]]>>
  \o OneItem
BadItem ==
  <<[id |-> NumId(1), name |-> "bread", quantity |-> 0, prices |-> [m \in {"x"} |-> 10]]>>

\* the bodies of POST and PUT requests: items of each kind, a name or none
CartBodies ==
  {[name |-> "", items |-> i] :
     i \in {NoItems, NotAnArray, Arr(<<>>), Arr(BadItem), Arr(OneItem), Arr(TwoItems)}}
  \cup {[name |-> "weekly", items |-> Arr(OneItem)]}

\* Date.now() does not run backwards
Clock(store) ==
  LET S == {store[k].updatedAt : k \in 1..Len(store)} IN IF S = {} THEN 1 ELSE SetMax(S)

\* an ObjectId is never handed out twice: not one a stored cart has, nor one
\* a waiting handler has read
FreshIds(ids) == (ids \ UsedIds(carts)) \ {j.id : j \in pending}

CartFrame ==
  /\ UNCHANGED <<cart, totals, saved, quantity, users, tokens, session>>
  /\ UNCHANGED rankVars

\* GET /api/cart
CartList(token) ==
  /\ reply' = IF ~AuthMiddleware(token) THEN Reply("GET /api/cart", token, 401, <<>>)
              ELSE Reply("GET /api/cart", token, 200, NewestFirst(carts, token.userId))
  /\ UNCHANGED <<carts, pending>>
  /\ CartFrame

\* GET /api/cart/:id
CartGet(token, id) ==
  /\ reply' =
       IF ~AuthMiddleware(token) THEN Reply("GET /api/cart/:id", token, 401, <<>>)
       ELSE IF id \notin UsedIds(carts) THEN Reply("GET /api/cart/:id", token, 404, <<>>)
       ELSE LET c == CHOOSE c \in Range(carts) : c._id = id
            IN IF c.userId # token.userId
               THEN Reply("GET /api/cart/:id", token, 403, <<>>)
               ELSE Reply("GET /api/cart/:id", token, 200, <<c>>)
  /\ UNCHANGED <<carts, pending>>
  /\ CartFrame

\* POST /api/cart
CartPost(token, body, id, at) ==
  LET r == IF ~AuthMiddleware(token) THEN [status |-> 401, store |-> carts]
           ELSE IF NotItems(body.items) THEN [status |-> 400, store |-> carts]
           ELSE PostCart(carts, token.userId, body.name, body.items.v, id, at)
  IN /\ carts' = r.store
     /\ reply' = Reply("POST /api/cart", token, r.status,
                       IF r.status = 201 THEN <<r.store[Len(r.store)]>> ELSE <<>>)
     /\ UNCHANGED pending
     /\ CartFrame

\* DELETE /api/cart/:id
CartDelete(token, id) ==
  LET r == IF ~AuthMiddleware(token) THEN [status |-> 401, store |-> carts]
           ELSE DeleteCart(carts, token.userId, id)
  IN /\ carts' = r.store
     /\ reply' = Reply("DELETE /api/cart/:id", token, r.status, <<>>)
     /\ UNCHANGED pending
     /\ CartFrame

\* the document a PUT handler holds after findById and its assignments:
\*   cart.name = name || cart.name; cart.items = items; cart.updatedAt = Date.now()
PutJob(conn, token, read, body, at) ==
  [kind |-> "put", conn |-> conn, token |-> token, id |-> read._id,
   name |-> body.name,
   doc |-> [read EXCEPT !.name = IF body.name = "" THEN @ ELSE body.name,
                        !.items = body.items.v,
                        !.updatedAt = at],
   nameModified |-> body.name # "" /\ body.name # read.name]

\* PUT /api/cart/:id up to `await cart.save()`: 401, 400, 404 and 403 are
\* answered at once, otherwise the handler waits for its save
CartPutRead(conn, token, id, body, at) ==
  /\ \A j \in pending : j.conn # conn
  /\ IF ~AuthMiddleware(token)
     THEN reply' = Reply("PUT /api/cart/:id", token, 401, <<>>) /\ UNCHANGED pending
     ELSE IF NotItems(body.items)
     THEN reply' = Reply("PUT /api/cart/:id", token, 400, <<>>) /\ UNCHANGED pending
     ELSE IF id \notin UsedIds(carts)
     THEN reply' = Reply("PUT /api/cart/:id", token, 404, <<>>) /\ UNCHANGED pending
     ELSE LET read == CHOOSE c \in Range(carts) : c._id = id
          IN IF read.userId # token.userId
             THEN reply' = Reply("PUT /api/cart/:id", token, 403, <<>>)
                  /\ UNCHANGED pending
             ELSE pending' = pending \cup {PutJob(conn, token, read, body, at)}
                  /\ UNCHANGED reply
  /\ UNCHANGED carts
  /\ CartFrame

\* save() writing every item on its own
SaveCartDocItemwise(store, job) ==
  IF ~CartValid(job.doc.items) \/ job.id \notin UsedIds(store) THEN store
  ELSE LET k == CHOOSE i \in 1..Len(store) : store[i]._id = job.id
       IN [store EXCEPT ![k].items =
             [i \in 1..Len(job.doc.items) |-> CastItem(job.doc.items[i])]
             \o SubSeq(@, Len(job.doc.items) + 1, Len(@))]

\* cart.save(): the schema's validation, then one update of the stored
\* document that sets the modified paths; a document deleted meanwhile is
\* not written
SaveCartDoc(store, job) ==
  IF ~CartValid(job.doc.items) \/ job.id \notin UsedIds(store) THEN store
  ELSE LET k == CHOOSE i \in 1..Len(store) : store[i]._id = job.id
       IN [store EXCEPT ![k].name = IF job.nameModified THEN job.doc.name ELSE @,
                        ![k].items = CastItems(job.doc.items),
                        ![k].updatedAt = job.doc.updatedAt]

\* PUT /api/cart/:id from `await cart.save()` on: 500 when validation fails,
\* 200 with the handler's document otherwise; saving a document that was
\* deleted meanwhile succeeds or fails with the version of the library
CartPutSave(job) ==
  /\ job \in pending /\ job.kind = "put"
  /\ carts' = SaveCartDoc(carts, job)
  /\ \E status \in {200, 500} :
       /\ ~CartValid(job.doc.items) => status = 500
       /\ (CartValid(job.doc.items) /\ job.id \in UsedIds(carts)) => status = 200
       /\ reply' = Reply("PUT /api/cart/:id", job.token, status,
                         IF status = 200
                         THEN <<[job.doc EXCEPT !.items = CastItems(@)]>> ELSE <<>>)
  /\ pending' = pending \ {job}
  /\ CartFrame

CartApiInit ==
  /\ products = <<>> /\ feProducts = <<>> /\ req = NoReq /\ res = <<>>
  /\ cart = <<>> /\ totals = NoTotals /\ carts = <<>> /\ saved = <<>> /\ quantity = 1
  /\ users = <<Shopper, Other>>
  /\ tokens = {RegisterToken(Shopper), LoginToken(Other)}
  /\ reply = NoReply /\ pending = {}
  /\ session = NoSession

\* the routes requested over one connection
CartApiNext ==
  \/ \E t \in CartTokens : CartList(t)
  \/ \E t \in CartTokens, id \in ApiCartIds : CartGet(t, id)
  \/ \E t \in CartTokens, b \in CartBodies, id \in FreshIds(ApiCartIds), at \in CartTimes :
       CartPost(t, b, id, at)
  \/ \E t \in CartTokens, id \in ApiCartIds : CartDelete(t, id)
  \/ \E t \in CartTokens, id \in ApiCartIds, b \in CartBodies, at \in CartTimes :
       CartPutRead("k1", t, id, b, at)
  \/ \E j \in pending : CartPutSave(j)

SpecCartApi == CartApiInit /\ [][CartApiNext]_vars

\* one cart requested over two connections at the passing of time
CartPutNext ==
  \/ \E t \in CartTokens, id \in CartIds : CartGet(t, id)
  \/ \E t \in CartTokens, b \in CartBodies, id \in FreshIds(CartIds), at \in ApiTimes :
       at >= Clock(carts) /\ CartPost(t, b, id, at)
  \/ \E t \in CartTokens, id \in CartIds : CartDelete(t, id)
  \/ \E k \in Connections, t \in CartTokens, id \in CartIds, b \in CartBodies,
        at \in ApiTimes :
       at >= Clock(carts) /\ CartPutRead(k, t, id, b, at)
  \/ \E j \in pending : CartPutSave(j)

SpecCartPut == CartApiInit /\ [][CartPutNext]_vars

(***************************************************************************)
(* backend: /api/auth/register and /api/auth/login, and the accounts       *)
(* specification: accounts are registered and logged in, and the admin     *)
(* routes of the products are requested with the tokens issued.            *)
(***************************************************************************)
\* the email addresses requests carry
Emails == {"a@x", "A@x", "b@x"}

\* the userSchema's setter of email: lowercase
Lower(email) == IF email = "A@x" THEN "a@x" ELSE email

\* the ObjectIds the User collection hands out
UserIds == {"u1", "u2"}

\* the bodies of registrations: an email, and whether name and password pass
\* the schema's validation
RegisterBodies == {[email |-> e, valid |-> v] : e \in Emails, v \in BOOLEAN}

\* User.findOne({ email }): the query is cast by the schema, setters included
FindUser(store, email) == {u \in Range(store) : u.email = Lower(email)}

\* user.save() with no unique index on email
SaveUserAnyEmail(store, doc, valid) ==
  IF ~valid THEN [ok |-> FALSE, store |-> store]
  ELSE [ok |-> TRUE, store |-> Append(store, doc)]

\* user.save(): the schema's validation, then the insert, which the unique
\* index on email refuses for an email the collection has
SaveUser(store, doc, valid) ==
  IF ~valid \/ \E u \in Range(store) : u.email = doc.email
  THEN [ok |-> FALSE, store |-> store]
  ELSE [ok |-> TRUE, store |-> Append(store, doc)]

AccountFrame ==
  /\ UNCHANGED <<products, feProducts, req, res, session>>
  /\ UNCHANGED cartVars

\* POST /api/auth/register up to `await user.save()`: 409 for an email that
\* has an account, otherwise the handler goes on to hash and save
RegisterRead(conn, body) ==
  /\ \A j \in pending : j.conn # conn
  /\ IF FindUser(users, body.email) # {}
     THEN /\ reply' = Reply("POST /api/auth/register", NoToken, 409, <<>>)
          /\ UNCHANGED pending
     ELSE /\ pending' = pending \cup
                          {[kind |-> "register", conn |-> conn,
                            email |-> Lower(body.email), valid |-> body.valid]}
          /\ UNCHANGED reply
  /\ UNCHANGED <<users, tokens>>
  /\ AccountFrame

\* POST /api/auth/register from `await user.save()` on: 201 with a token for
\* the new account, 500 when the save fails
RegisterSave(job, id) ==
  /\ job \in pending /\ job.kind = "register"
  /\ LET user == [_id |-> id, email |-> job.email, isAdmin |-> FALSE]
         r == SaveUser(users, user, job.valid)
     IN /\ users' = r.store
        /\ tokens' = IF r.ok THEN tokens \cup {RegisterToken(user)} ELSE tokens
        /\ reply' = IF r.ok THEN Reply("POST /api/auth/register", NoToken, 201, <<user>>)
                    ELSE Reply("POST /api/auth/register", NoToken, 500, <<>>)
  /\ pending' = pending \ {job}
  /\ AccountFrame

\* POST /api/auth/login: 401 for an unknown email or a wrong password, else
\* 200 with a token that carries the account's isAdmin
Login(email, isMatch) ==
  /\ IF FindUser(users, email) = {} \/ ~isMatch
     THEN /\ reply' = Reply("POST /api/auth/login", NoToken, 401, <<>>)
          /\ UNCHANGED tokens
     ELSE LET user == CHOOSE u \in FindUser(users, email) : TRUE
          IN /\ reply' = Reply("POST /api/auth/login", NoToken, 200, <<user>>)
             /\ tokens' = tokens \cup {LoginToken(user)}
  /\ UNCHANGED <<users, pending>>
  /\ AccountFrame

\* the bodies of POST /api/products: every field, or one of them missing
ProductBodies ==
  LET full == [name |-> "rye", category |-> "bakery", prices |-> [m \in {"x"} |-> 7]]
  IN {full, [name |-> "rye", category |-> "bakery"], [name |-> "rye", prices |-> full.prices],
      [category |-> "bakery", prices |-> full.prices]}

\* the bodies of PUT /api/products/:id
ProductChanges == PriceChanges \cup {[name |-> "rye", popularity |-> 5, rating |-> 4]}

\* the ObjectIds the Product collection hands out
NewProductIds == {"p9"}

AccountsInit ==
  /\ products = Shelf /\ feProducts = <<>> /\ req = NoReq /\ res = <<>>
  /\ cart = <<>> /\ totals = NoTotals /\ carts = <<>> /\ saved = <<>> /\ quantity = 1
  /\ users = <<Admin>> /\ tokens = {}
  /\ reply = NoReply /\ pending = {}
  /\ session = NoSession

AccountsNext ==
  \/ \E k \in Connections, b \in RegisterBodies : RegisterRead(k, b)
  \/ \E j \in pending, id \in UserIds \ {u._id : u \in Range(users)} : RegisterSave(j, id)
  \/ \E e \in Emails \cup {Admin.email}, isMatch \in BOOLEAN : Login(e, isMatch)
  \/ \E t \in tokens \cup {NoToken, BadToken}, b \in ProductBodies,
        id \in NewProductIds \ ProductIds(products) : ProductPost(t, b, id)
  \/ \E t \in tokens \cup {NoToken, BadToken}, id \in ProductIds(Shelf), b \in ProductChanges :
       ProductPut(t, id, b)
  \/ \E t \in tokens \cup {NoToken, BadToken}, id \in ProductIds(Shelf) : ProductDelete(t, id)

SpecAccounts == AccountsInit /\ [][AccountsNext]_vars

(***************************************************************************)
(* Vocabulary of the ranking properties                                    *)
(***************************************************************************)
Done == req.state = "done"

HasPrices(p) == DOMAIN p.prices # {}
AllPriced == \A i \in 1..Len(products) : HasPrices(products[i])

\* the ranking keys of the specification's table
LeastPrice(p) == CHOOSE v \in {p.prices[m] : m \in DOMAIN p.prices} :
                   \A m \in DOMAIN p.prices : v <= p.prices[m]
GreatestPrice(p) == CHOOSE v \in {p.prices[m] : m \in DOMAIN p.prices} :
                      \A m \in DOMAIN p.prices : v >= p.prices[m]
PriceSpread(p) == GreatestPrice(p) - LeastPrice(p)

Returned == {res[i] : i \in 1..Len(res)}
NotReturned == {products[i] : i \in 1..Len(products)} \ Returned

\* the limit the request asks for, when it names an integer
AsksInteger == \E n \in LimitRange : ToString(n) = req.sent
AskedLimit == CHOOSE n \in LimitRange : ToString(n) = req.sent

\* the list the request ranks: the frontend's cached list when it sorts
\* locally, the collection otherwise
SortsLocally ==
  /\ req.side = "frontend" /\ Len(feProducts) > 0
  /\ req.criteria \in {"cheapest", "highest different"}
Snapshot == IF SortsLocally THEN feProducts ELSE products
PosIn(s, p) == CHOOSE i \in 1..Len(s) : s[i] = p

Smaller(a, b) == IF a < b THEN a ELSE b

\* C2: on a collection whose products all have prices, the cheapest ranking
\* is in non-decreasing order of minimum price, and no product left out is
\* cheaper than a product returned.
C2_CheapestOrdered ==
  (Done /\ req.criteria = "cheapest" /\ AllPriced) =>
    /\ \A i, j \in 1..Len(res) : i < j => LeastPrice(res[i]) <= LeastPrice(res[j])
    /\ \A r \in Returned, u \in NotReturned : LeastPrice(r) <= LeastPrice(u)

\* C3: on a collection whose products all have prices, the price-spread
\* ranking is in non-increasing order of (max - min), and no product left
\* out has a larger spread than a product returned.
C3_SpreadOrdered ==
  (Done /\ req.criteria = "highest different" /\ AllPriced) =>
    /\ \A i, j \in 1..Len(res) : i < j => PriceSpread(res[i]) >= PriceSpread(res[j])
    /\ \A r \in Returned, u \in NotReturned : PriceSpread(r) >= PriceSpread(u)

\* C4: a product without prices never appears in the cheapest or the
\* price-spread ranking, whatever the limit.
C4_EmptyPricesExcluded ==
  (Done /\ req.criteria \in {"cheapest", "highest different"}) =>
    \A i \in 1..Len(res) : HasPrices(res[i])

\* C5: with a limit of at least 1, an unrecognized criterion and the empty
\* criterion both return the first `limit` products in ascending order of
\* name.
C5_EmptyCriterionIsDefault ==
  (/\ Done /\ req.side = "backend" /\ req.criteria \in {"", "not_a_real_criterion"}
   /\ AsksInteger /\ AskedLimit >= 1) =>
    /\ Len(res) = Smaller(AskedLimit, Len(products))
    /\ \A i, j \in 1..Len(res) : i < j => NameLeq(res[i].name, res[j].name)
    /\ \A r \in Returned, u \in NotReturned : NameLeq(r.name, u.name)

C7_NonPositiveLimitEmpty ==
  (Done /\ AsksInteger /\ AskedLimit <= 0) => res = <<>>

\* C8: with a limit of at least 1 and a collection of n products that all
\* have prices, every criterion returns exactly min(limit, n) products of
\* the collection, none of them twice.
C8_LimitBound ==
  (Done /\ AsksInteger /\ AskedLimit >= 1 /\ AllPriced) =>
    /\ Len(res) = Smaller(AskedLimit, Len(products))
    /\ \A i, j \in 1..Len(res) : res[i] = res[j] => i = j
    /\ Returned \subseteq {products[i] : i \in 1..Len(products)}

C8_Witness ==
  /\ Done /\ AsksInteger /\ AllPriced
  /\ Len(products) = 3 /\ AskedLimit > Len(products) /\ Len(res) = 3
  /\ req.criteria = "most selected"

\* the ranking key of the request's criterion, as a pair ordered like the key
SameKey(a, b) ==
  CASE req.criteria = "cheapest" -> LeastPrice(a) = LeastPrice(b)
    [] req.criteria = "highest different" -> PriceSpread(a) = PriceSpread(b)
    [] req.criteria = "most selected" -> a.popularity = b.popularity
    [] req.criteria = "highest rated" -> a.rating = b.rating
    [] OTHER -> a.name = b.name

\* C9: products of equal ranking key come out in the order of the input
\* snapshot, and of two such products the earlier one survives the limit
\* cut (stated for limits of at least 1 and collections that all have
\* prices).
C9_StableTies ==
  (/\ Done /\ AllPriced /\ AsksInteger /\ AskedLimit >= 1
   /\ req.criteria \in {"cheapest", "highest different", "most selected",
                        "highest rated", "not_a_real_criterion"}) =>
    /\ \A i, j \in 1..Len(res) :
         (i < j /\ SameKey(res[i], res[j])) =>
           PosIn(Snapshot, res[i]) < PosIn(Snapshot, res[j])
    /\ \A r \in Returned, u \in NotReturned :
         SameKey(r, u) => PosIn(Snapshot, r) < PosIn(Snapshot, u)

(***************************************************************************)
(* Properties of the totals                                                *)
(***************************************************************************)
RECURSIVE SumOver(_, _)
\* the sum of price(m) * quantity over the items among the first n that list m
SumOver(m, n) ==
  IF n = 0 THEN 0
  ELSE SumOver(m, n - 1)
       + (IF m \in DOMAIN cart[n].prices THEN cart[n].prices[m] * cart[n].quantity ELSE 0)

ListedMarkets == UNION {DOMAIN cart[i].prices : i \in 1..Len(cart)}

\* C1: the totals' keys are exactly the markets some item lists, and each
\* market's total is the sum of price * quantity over the items listing it;
\* the empty cart gives the empty mapping.
C1_TotalsAreSums ==
  totals.called =>
    /\ DOMAIN totals.value = ListedMarkets
    /\ \A m \in ListedMarkets : totals.value[m] = SumOver(m, Len(cart))
    /\ cart = <<>> => totals.value = EmptyPrices

C1_Witness ==
  /\ totals.called
  /\ Len(cart) = 2
  /\ cart[1].prices = [m \in {"x", "y"} |-> IF m = "x" THEN 10 ELSE 8]
  /\ cart[1].quantity = 2
  /\ cart[2].prices = [m \in {"x"} |-> 5]
  /\ cart[2].quantity = 1
  /\ totals.value = [m \in {"x", "y"} |-> IF m = "x" THEN 25 ELSE 16]

(***************************************************************************)
(* Properties of the cart                                                  *)
(***************************************************************************)
QuantitiesAtLeastOne(items) == \A i \in 1..Len(items) : items[i].quantity >= 1

\* C10: every line of the in-memory cart has quantity >= 1, and so has every
\* item of every cart the backend stores and of every saved cart the page
\* holds; updateQuantity with a quantity below 1 leaves the cart as it was.
C10_QuantityAtLeastOne ==
  /\ [](/\ QuantitiesAtLeastOne(cart)
        /\ \A k \in 1..Len(carts) : QuantitiesAtLeastOne(carts[k].items)
        /\ \A k \in 1..Len(saved) : QuantitiesAtLeastOne(saved[k].items))
  /\ [][\A id \in LineIds(cart), q \in (0 - 1)..0 :
          UpdateQuantity(id, q) => cart' = cart]_vars

C10_Witness ==
  /\ Len(cart) = 2
  /\ cart[1].id = StrId(1) /\ cart[2].id = NumId(1)
  /\ cart[2].quantity = MaxQty
  /\ Len(carts) = 1 /\ Len(saved) = 1

(***************************************************************************)
(* Properties of the price snapshot                                        *)
(***************************************************************************)
\* the prices of the items of every cart the store holds
StoredPrices(store) ==
  [k \in 1..Len(store) |-> [i \in 1..Len(store[k].items) |-> store[k].items[i].prices]]

\* C11: a step that changes the product collection or the fetched product
\* list leaves the cart's lines, the stored carts' and the saved carts' items
\* with the prices they had, and the totals of the cart as they were.
C11_PricesAreSnapshot ==
  [][(products' # products \/ feProducts' # feProducts) =>
       /\ cart' = cart
       /\ StoredPrices(carts') = StoredPrices(carts)
       /\ StoredPrices(saved') = StoredPrices(saved)
       /\ TotalsOf(cart') = TotalsOf(cart)]_vars

\* the cart holds a line and the stored cart an item at the prices the
\* product had when it was added, after the product's prices were changed
\* and the list fetched again
C11_Witness ==
  /\ Len(cart) = 1 /\ cart[1].prices = Shelf[1].prices
  /\ Len(carts) = 1 /\ carts[1].items[1].prices = Shelf[1].prices
  /\ Len(feProducts) = 1 /\ feProducts[1].prices # Shelf[1].prices
  /\ totals.called /\ totals.value = TotalsOf(cart)

(***************************************************************************)
(* Properties of the cart routes                                           *)
(***************************************************************************)
\* the user a request is authenticated as
Requester(r) == r.token.userId

OwnerOf(store, id) == (CHOOSE c \in Range(store) : c._id = id).userId

\* the request is authenticated and names a cart of another user
ForeignCart(token, id) ==
  AuthMiddleware(token) /\ id \in UsedIds(carts) /\ OwnerOf(carts, id) # token.userId

RequestedItems == {CastItems(b.items.v) : b \in {c \in CartBodies : ~NotItems(c.items)}}

StoredCart(store, id) == CHOOSE c \in Range(store) : c._id = id

\* C13: the save of a PUT that answers 200 leaves the stored cart with
\* exactly the request's items, with the name it had when the request gives
\* none, and with its owner and createdAt; so after interleaved PUTs the
\* stored items are those of one request, and at every moment the stored
\* items of a cart are the whole item sequence of some request.
C13_PutReplacesItems ==
  /\ [](\A c \in Range(carts) : c.items \in RequestedItems)
  /\ [][\A j \in pending :
          (CartPutSave(j) /\ reply'.status = 200 /\ j.id \in UsedIds(carts)) =>
            /\ j.id \in UsedIds(carts')
            /\ StoredCart(carts', j.id).items = CastItems(j.doc.items)
            /\ j.name = "" => StoredCart(carts', j.id).name = StoredCart(carts, j.id).name
            /\ StoredCart(carts', j.id).userId = StoredCart(carts, j.id).userId
            /\ StoredCart(carts', j.id).createdAt = StoredCart(carts, j.id).createdAt]_vars

\* two PUTs read the cart before either saved: the one naming it saved
\* first, the other, whose response still shows the name it read, last
C13_Witness ==
  /\ pending = {} /\ Len(carts) = 1
  /\ carts[1].name = "weekly" /\ carts[1].items = CastItems(TwoItems)
  /\ carts[1].createdAt = 1 /\ carts[1].updatedAt = 2
  /\ reply.route = "PUT /api/cart/:id" /\ reply.status = 200
  /\ reply.body[1].name = DefaultName

\* C14: a cart request without a token, or with a token that fails
\* verification, is answered 401 with no cart in the response, and its step
\* changes neither the stored carts nor the handlers waiting to save.
C14_NoTokenNoHandler ==
  /\ []((reply.route # "none" /\ reply.token.kind # "jwt") =>
          (reply.status = 401 /\ reply.body = <<>>))
  /\ [][(reply' # reply /\ reply'.token.kind # "jwt") =>
          (carts' = carts /\ pending' = pending)]_vars

\* a PUT with a token that fails verification was refused while a cart is
\* stored and another PUT waits for its save
C14_Witness ==
  /\ reply.route = "PUT /api/cart/:id" /\ reply.token = BadToken /\ reply.status = 401
  /\ Len(carts) = 1 /\ pending # {}

\* C15: an authenticated POST /api/cart whose items are missing, not an
\* array or an empty array is answered 400 and stores nothing; with a
\* non-empty array of valid items it is answered 201 with the one cart it
\* adds to the store, owned by the requester, holding the items, and named
\* as the request says or, without a name, by the timestamp label.
C15_PostCreatesOneCart ==
  [][\A t \in CartTokens, b \in CartBodies, id \in FreshIds(ApiCartIds), at \in CartTimes :
       (AuthMiddleware(t) /\ CartPost(t, b, id, at)) =>
         /\ (NotItems(b.items) \/ b.items.v = <<>>) =>
              (reply'.status = 400 /\ reply'.body = <<>> /\ carts' = carts)
         /\ (~NotItems(b.items) /\ b.items.v # <<>> /\ CartValid(b.items.v)) =>
              /\ reply'.status = 201
              /\ Len(carts') = Len(carts) + 1
              /\ SubSeq(carts', 1, Len(carts)) = carts
              /\ reply'.body = <<carts'[Len(carts')]>>
              /\ carts'[Len(carts')].userId = t.userId
              /\ carts'[Len(carts')].items = CastItems(b.items.v)
              /\ carts'[Len(carts')].name = IF b.name = "" THEN DefaultName ELSE b.name]_vars

\* a second cart was created by a POST without a name
C15_Witness ==
  /\ reply.route = "POST /api/cart" /\ reply.status = 201
  /\ Len(carts) = 2 /\ reply.body = <<carts[2]>>
  /\ carts[2].name = DefaultName /\ carts[1].name = "weekly"

\* C16: a PUT /api/cart/:id whose items are empty or not provided is
\* answered 400 and leaves the stored cart as it was, so that no stored cart
\* ever has an empty item sequence.
C16_NoEmptyStoredCart ==
  /\ \A c \in Range(carts) : c.items # <<>>
  /\ \A j \in pending : j.doc.items # <<>>

(***************************************************************************)
(* Properties of the accounts and of the admin routes                      *)
(***************************************************************************)
ProductWrites ==
  {"POST /api/products", "PUT /api/products/:id", "DELETE /api/products/:id"}

\* C17: a step changes the product collection only for a request with a
\* token that was issued and carries isAdmin true; POST, PUT and DELETE
\* under /api/products answer 401 without a valid token and 403 with a valid
\* token that is not an admin's, as every token of /api/auth/register is,
\* and then leave the collection as it was.
C17_AdminOnlyWrites ==
  /\ [](reply.route \in ProductWrites =>
          /\ reply.token.kind # "jwt" => reply.status = 401
          /\ (reply.token.kind = "jwt" /\ reply.token.isAdmin # "true") => reply.status = 403)
  /\ [](\A u \in Range(users) : RegisterToken(u).isAdmin # "true")
  /\ [](\A t \in tokens : t.isAdmin = "true" =>
          \E u \in Range(users) : u._id = t.userId /\ u.isAdmin)
  /\ [][products' # products =>
          (reply'.token \in tokens /\ reply'.token.isAdmin = "true")]_vars
  /\ [][(reply' # reply /\ reply'.route \in ProductWrites /\ reply'.status \in {401, 403})
          => products' = products]_vars

\* a DELETE with the token of a registration was refused after the admin had
\* changed the product
C17_Witness ==
  /\ reply.route = "DELETE /api/products/:id" /\ reply.status = 403
  /\ reply.token \in tokens /\ reply.token.isAdmin = "absent"
  /\ Len(products) = 1 /\ products # Shelf

\* the body of a POST /api/products has name, category and prices
Complete(body) ==
  /\ Has(body, "name") /\ Has(body, "category") /\ Has(body, "prices")
  /\ body.name # "" /\ body.category # ""

\* C18: an admin's POST /api/products with name, category and prices adds
\* the product to the collection and answers 201 with it; with one of them
\* missing it answers 400 and the collection stays as it was.
C18_AdminCreatesProduct ==
  [][\A t \in tokens, b \in ProductBodies, id \in NewProductIds \ ProductIds(products) :
       (AdminMiddleware(t) /\ ProductPost(t, b, id)) =>
         /\ Complete(b) =>
              /\ reply'.status = 201
              /\ Len(products') = Len(products) + 1
              /\ reply'.body = <<products'[Len(products')]>>
         /\ ~Complete(b) => (reply'.status = 400 /\ products' = products)]_vars

\* the tokens /api/auth/register has issued
RegisterTokens == {t \in tokens : t.isAdmin = "absent"}

\* C19: no two accounts have the same email. A registration whose email has
\* an account when the handler looks it up is answered 409, and adds no
\* account and no token. The collection grows only by one account with a
\* new email, answered 201 with that account's token, so of two concurrent
\* registrations of one new email at most one creates the account and gets
\* a token.
C19_OneAccountPerEmail ==
  /\ [](\A i, j \in 1..Len(users) : users[i].email = users[j].email => i = j)
  /\ [](Cardinality(RegisterTokens) = Len(users) - 1)
  /\ [][\A k \in Connections, b \in RegisterBodies :
          (RegisterRead(k, b) /\ FindUser(users, b.email) # {}) =>
            /\ reply'.status = 409
            /\ users' = users /\ tokens' = tokens /\ pending' = pending]_vars
  /\ [][users' # users =>
          \E u \in Range(users') :
            /\ users' = Append(users, u)
            /\ FindUser(users, u.email) = {}
            /\ tokens' = tokens \cup {RegisterToken(u)}
            /\ RegisterToken(u) \notin tokens
            /\ reply'.status = 201 /\ reply'.body = <<u>>]_vars
  /\ [][\A j \in pending, id \in UserIds :
          (RegisterSave(j, id) /\ FindUser(users, j.email) # {}) =>
            (users' = users /\ tokens' = tokens /\ reply'.status # 201)]_vars

\* of two registrations of one new email that both passed the lookup, one
\* has been answered 201 and the other is about to save
C19_Witness ==
  /\ reply.route = "POST /api/auth/register" /\ reply.status = 201
  /\ \E j \in pending :
       /\ j.valid /\ j.email = reply.body[1].email
       /\ FindUser(users, j.email) # {}

(***************************************************************************)
(* Properties of repeated calls of getSupermarketTotals                    *)
(***************************************************************************)
\* C20: getSupermarketTotals called again on an unchanged cart returns what
\* the call before it returned, and no call changes the cart.
C20_TotalsIdempotent ==
  /\ [](totals.again => totals.value = totals.before)
  /\ [][totals' # totals =>
          (cart' = cart /\ totals'.value = TotalsOf(cart'))]_vars

\* getSupermarketTotals was called twice on a cart of two lines that two
\* markets price
C20_Witness ==
  /\ totals.again /\ Len(cart) = 2
  /\ DOMAIN totals.value = {"x", "y"} /\ totals.value["x"] > 0
  /\ totals.before = totals.value

(***************************************************************************)
(* Properties of ranking as a read                                         *)
(***************************************************************************)
\* C21: no step of a run of top-products requests, whatever their criteria
\* and limits, changes the product collection or the frontend's `products`
\* list or its order; GET /api/products answers from the collection and
\* ProductsPage lists `products`, so both show what they showed before.
C21_RankingReadsOnly ==
  [][products' = products /\ feProducts' = feProducts]_vars

\* the context has ranked its list into an order that is not the list's own,
\* and the list is still as GET /api/products gave it
C21_Witness ==
  /\ req.side = "frontend" /\ req.state = "done" /\ req.criteria = "cheapest"
  /\ Len(feProducts) = MaxProducts /\ Len(res) = Len(feProducts)
  /\ res # feProducts
  /\ feProducts \in GetAllProducts(products)

(***************************************************************************)
(* Properties of TopProductsPage's session check                           *)
(***************************************************************************)
\* C22: TopProductsPage opened by a user who logged in through LoginPage
\* stays on the page and starts fetching the top products; opened by a user
\* who is not logged in it goes to /login.
C22_RedirectIffLoggedOut ==
  [][\A r \in FrontendRequests :
       OpenTopProducts(r) =>
         /\ session.currentUser # Null =>
              (session'.page = "TopProductsPage" /\ req' = r)
         /\ session.currentUser = Null => session'.page = "/login"]_vars

(***************************************************************************)
(* Properties of loading a saved cart                                      *)
(***************************************************************************)
\* C23: loadCart of a saved cart's items makes the current cart exactly
\* those items, and no step that changes the current cart changes the saved
\* carts SavedCartsPage holds or the carts the backend stores.
C23_LoadReplacesCart ==
  /\ [][\A k \in 1..Len(saved) : LoadCart(k) => cart' = saved[k].items]_vars
  /\ [][cart' # cart => (saved' = saved /\ carts' = carts)]_vars

\* a saved cart was loaded and its product added again: the cart has the
\* loaded line and a new one, the saved cart and the stored cart are as saved
C23_Witness ==
  /\ Len(saved) = 1 /\ Len(carts) = 1 /\ saved[1] = carts[1]
  /\ Len(cart) = 2
  /\ cart[1] = saved[1].items[1]
  /\ cart[2].id = NumId(Shelf[1].id)

(***************************************************************************)
(* Properties of the lines of the cart                                     *)
(***************************************************************************)
\* the product a line is of: its id, as a String or as a Number
ProductOf(line) == line.id.v

\* C24: no two lines of the in-memory cart are of the same product, and
\* addToCart of a product the cart has a line of raises that line's
\* quantity by the quantity added and appends no line.
C24_OneLinePerProduct ==
  /\ [](\A i, j \in 1..Len(cart) : ProductOf(cart[i]) = ProductOf(cart[j]) => i = j)
  /\ [][\A p \in Range(feProducts) :
          (AddToCart(p) /\ \E i \in 1..Len(cart) : ProductOf(cart[i]) = p.id) =>
            /\ Len(cart') = Len(cart)
            /\ \A i \in 1..Len(cart) :
                 cart'[i].quantity = cart[i].quantity
                                     + (IF ProductOf(cart[i]) = p.id THEN quantity ELSE 0)]_vars

(***************************************************************************)
(* Properties of calls on one render                                       *)
(***************************************************************************)
\* C25: two of addToCart, removeFromCart and updateQuantity called before
\* CartProvider renders again leave the cart that the second would leave
\* when called on the cart the first has left.
C25_CallsCompose ==
  [][\A op1, op2 \in BatchOps :
       InvokeTwo(op1, op2) =>
         cart' = SetValue(IF SetsCart(op1) THEN SetValue(cart, op1) ELSE cart, op2)
         \/ (~SetsCart(op2) /\ cart' = (IF SetsCart(op1) THEN SetValue(cart, op1) ELSE cart))]_vars

====
